---- MODULE Spec2Model ----
(***************************************************************************)
(* Model of src/server.py: the stream catalog builder (get_video_info),    *)
(* the retry wrapper (get_video_info_with_retry), the fetch-and-assemble   *)
(* pipeline (download_youtube, convert_to_mp3, merge_video_audio) and the  *)
(* download branch of button_handler, with the usage log and the           *)
(* temporary directories they act on.                                      *)
(*                                                                         *)
(* Three specifications share the module:                                  *)
(*   SpecCatalog  get_video_info applied to one provider response          *)
(*   SpecRetry    get_video_info_with_retry, one loop iteration per step   *)
(*   Spec         button_handler download sessions of several users,       *)
(*                interleaved at their await points                        *)
(***************************************************************************)
EXTENDS Integers, Sequences, FiniteSets, TLC

VARIABLES
    \* --- SpecCatalog ---
    provider,      \* what YouTube(url) / yt.streams gives for this call
    video_info,    \* value returned by get_video_info ("pending" before)
    \* --- SpecRetry ---
    retries,       \* parameter of get_video_info_with_retry
    attempt,       \* loop variable of `for attempt in range(retries)`
    info,          \* local `info` (NotBound before the first assignment)
    calls,         \* history: values returned by get_video_info, in order
    sleeps,        \* history: number of asyncio.sleep(1) performed
    rpc,           \* "loop" | "returned" | "raised"
    retry_result,  \* value returned by get_video_info_with_retry
    \* --- Spec ---
    usage_logs,    \* table usage_logs: row id = index
    fs,            \* temporary directories on disk: directory -> its files
    mkdtemp_count, \* number of directories tempfile.mkdtemp has made
    pc,            \* per user: the await at which button_handler is suspended
    loc,           \* per user: button_handler's locals
    hist,          \* per user, history: what the environment did to the job
    \* --- SpecUrl ---
    uh,            \* one run of url_handler or of button_handler's "option" branch
    \* --- SpecUsers, SpecStats ---
    users,         \* table users: user_id -> row
    first_seen,    \* history: the row of each user_id's first save_user call
    now,           \* datetime.now(WIB), as a count of elapsed ticks
    stats          \* value returned by get_user_stats ("pending" before)

catalogVars == <<provider, video_info>>
retryVars == <<retries, attempt, info, calls, sleeps, rpc, retry_result>>
handlerVars == <<usage_logs, fs, mkdtemp_count, pc, loc, hist>>
moreVars == <<uh, users, first_seen, now, stats>>
vars == <<provider, video_info, retries, attempt, info, calls, sleeps, rpc,
          retry_result, usage_logs, fs, mkdtemp_count, pc, loc, hist,
          uh, users, first_seen, now, stats>>

(***************************************************************************)
(* Bounds of the model.                                                    *)
(***************************************************************************)
MaxStreams == 3
MaxRepeat == 4
MaxRetries == 3
NumUsers == 1
NumJobs == 2
MaxLogs == 2
MaxTime == 3

(***************************************************************************)
(* Sequence helpers.                                                       *)
(***************************************************************************)
RECURSIVE Reverse(_)
Reverse(s) == IF s = <<>> THEN <<>> ELSE Append(Reverse(Tail(s)), Head(s))

\* A slice that was left out.
Take_uncapped(s, n) == s

\* s[:n]
Take(s, n) == IF Len(s) <= n THEN s ELSE SubSeq(s, 1, n)

RECURSIVE Repeat(_, _)
Repeat(s, n) == IF n = 0 THEN <<>> ELSE s \o Repeat(s, n - 1)

RECURSIVE SeqsUpTo(_, _)
SeqsUpTo(S, n) ==
    IF n = 0 THEN {<<>>}
    ELSE LET shorter == SeqsUpTo(S, n - 1)
         IN  shorter \cup {Append(s, x) : s \in {t \in shorter : Len(t) = n - 1}, x \in S}

(***************************************************************************)
(* The provider's raw streams.  kind: "audio" (audio only), "prog"         *)
(* (progressive: audio and video in one file), "adapt" (video only).       *)
(* q is the number in the quality string (abr "128kbps" -> 128, resolution *)
(* "720p" -> 720); q = 0 stands for an attribute that is None.             *)
(***************************************************************************)
ALLOWED_VIDEO_RESOLUTIONS == {144, 240, 360, 480, 720, 1080}

AudioStreams == [kind : {"audio"}, q : {0, 128, 160}, subtype : {"m4a"}]

VideoStreams ==
    [kind : {"prog", "adapt"}, q : {720, 1080, 1440}, subtype : {"mp4"}]
    \cup [kind : {"prog", "adapt"}, q : {720}, subtype : {"webm"}]

RawStreams == AudioStreams \cup VideoStreams

\* The provider assigns every stream of a video its own itag.
WithItags(s) == [i \in DOMAIN s |->
                    [itag |-> i, kind |-> s[i].kind, q |-> s[i].q, subtype |-> s[i].subtype]]

\* The spec's scenario: [audio 160, audio 128, 720p prog, 720p adapt, 1080p adapt].
ScenarioStreams ==
    WithItags(<< [kind |-> "audio", q |-> 160, subtype |-> "m4a"],
                 [kind |-> "audio", q |-> 128, subtype |-> "m4a"],
                 [kind |-> "prog",  q |-> 720, subtype |-> "mp4"],
                 [kind |-> "adapt", q |-> 720, subtype |-> "mp4"],
                 [kind |-> "adapt", q |-> 1080, subtype |-> "mp4"] >>)

\* Exceptions the provider call can raise inside get_video_info.
ProviderErrors == {"VideoUnavailable", "HTTPError", "Exception"}

Response(raises, streams) == [raises |-> raises, streams |-> streams]

(***************************************************************************)
(* pytubefix StreamQuery operations used by the code.                      *)
(***************************************************************************)
\* order_by(attr): drops the streams whose attribute is None, then sorts
\* ascending by the number in the attribute (sorted() is stable).
RECURSIVE InsertByQ(_, _)
InsertByQ(s, x) ==
    IF s = <<>> THEN <<x>>
    ELSE IF s[Len(s)].q <= x.q THEN Append(s, x)
    ELSE Append(InsertByQ(SubSeq(s, 1, Len(s) - 1), x), s[Len(s)])

RECURSIVE SortedByQ(_)
SortedByQ(s) ==
    IF s = <<>> THEN <<>>
    ELSE InsertByQ(SortedByQ(SubSeq(s, 1, Len(s) - 1)), s[Len(s)])

order_by(s) == SortedByQ(SelectSeq(s, LAMBDA x : x.q # 0))

\* A query whose .desc() was left out.
desc_forgotten(s) == s

\* .desc(): the query reversed.
desc(s) == Reverse(s)

(***************************************************************************)
(* get_video_info                                                          *)
(***************************************************************************)
\* lines 194-203
audio_options_of(streams) ==
    LET audio_streams == desc(order_by(SelectSeq(streams, LAMBDA x : x.kind = "audio")))
        kept == SelectSeq(audio_streams, LAMBDA x : x.q # 0)
    IN  [i \in DOMAIN kept |->
            [itag |-> kept[i].itag, format |-> "audio", quality |-> kept[i].q,
             extension |-> kept[i].subtype]]

\* lines 204-214
prog_options_of(streams) ==
    LET video_streams_prog ==
            desc(order_by(SelectSeq(streams,
                LAMBDA x : x.kind = "prog" /\ x.subtype = "mp4")))
        kept == SelectSeq(video_streams_prog,
                    LAMBDA x : x.q \in ALLOWED_VIDEO_RESOLUTIONS)
    IN  [i \in DOMAIN kept |->
            [itag |-> kept[i].itag, format |-> "video", quality |-> kept[i].q,
             extension |-> kept[i].subtype, ptype |-> "prog"]]

\* line 218: any(opt['quality'] == stream.resolution for opt in video_options)
HasQuality(video_options, q) == \E i \in DOMAIN video_options : video_options[i].quality = q

\* lines 216-226: the loop over the adaptive streams, video_options accumulating
RECURSIVE add_adaptive(_, _)
add_adaptive(video_options, adapt) ==
    IF adapt = <<>> THEN video_options
    ELSE LET stream == Head(adapt)
         IN  IF stream.q \in ALLOWED_VIDEO_RESOLUTIONS /\ ~HasQuality(video_options, stream.q)
             THEN add_adaptive(
                      Append(video_options,
                             [itag |-> stream.itag, format |-> "video", quality |-> stream.q,
                              extension |-> stream.subtype, ptype |-> "adapt"]),
                      Tail(adapt))
             ELSE add_adaptive(video_options, Tail(adapt))

\* lines 204-226
video_options_of(streams) ==
    LET video_streams_adapt ==
            desc(order_by(SelectSeq(streams,
                LAMBDA x : x.kind = "adapt" /\ x.subtype = "mp4")))
    IN  add_adaptive(prog_options_of(streams), video_streams_adapt)

\* Values get_video_info returns: a catalog, None, or {"error": msg}; the
\* message's fixed prefix tells which except clause produced it.
Pending == [tag |-> "pending"]
NotBound == [tag |-> "unbound"]
NoneValue == [tag |-> "None"]
ErrorValue(kind) == [tag |-> "error", error |-> kind]

\* A builder without the last except clause (lines 246-249): any other
\* exception leaves the function.
get_video_info_no_catch_all(resp) ==
    IF resp.raises = "VideoUnavailable" THEN ErrorValue("unavailable")
    ELSE IF resp.raises = "HTTPError" THEN ErrorValue("http")
    ELSE IF resp.raises = "Exception" THEN [tag |-> "raised"]
    ELSE LET audio_options == Take(audio_options_of(resp.streams), 3)
             video_options == Take(video_options_of(resp.streams), 10)
         IN  IF audio_options = <<>> /\ video_options = <<>>
             THEN NoneValue
             ELSE [tag |-> "catalog", audio_options |-> audio_options,
                   video_options |-> video_options]

\* A builder without the check for two empty lists (lines 227-229).
get_video_info_no_empty_check(resp) ==
    IF resp.raises = "VideoUnavailable" THEN ErrorValue("unavailable")
    ELSE IF resp.raises = "HTTPError" THEN ErrorValue("http")
    ELSE IF resp.raises = "Exception" THEN ErrorValue("unexpected")
    ELSE [tag |-> "catalog",
          audio_options |-> Take(audio_options_of(resp.streams), 3),
          video_options |-> Take(video_options_of(resp.streams), 10)]

\* lines 188-249
get_video_info(resp) ==
    IF resp.raises = "VideoUnavailable" THEN ErrorValue("unavailable")
    ELSE IF resp.raises = "HTTPError" THEN ErrorValue("http")
    ELSE IF resp.raises = "Exception" THEN ErrorValue("unexpected")
    ELSE LET audio_options == audio_options_of(resp.streams)
             video_options == video_options_of(resp.streams)
         IN  IF audio_options = <<>> /\ video_options = <<>>
             THEN NoneValue
             ELSE [tag |-> "catalog",
                   audio_options |-> Take(audio_options, 3),
                   video_options |-> Take(video_options, 10)]

(***************************************************************************)
(* The usage log (table usage_logs).                                       *)
(***************************************************************************)
\* lines 81-92: INSERT with status "started"; returns the new row's id
log_usage(logs, user_id, action) ==
    Append(logs, [user_id |-> user_id, action |-> action,
                  status |-> "started", error_message |-> ""])

\* lines 94-102: UPDATE ... WHERE id = log_id (no row, no change)
update_log_status(logs, log_id, status, error_message) ==
    [i \in DOMAIN logs |->
        IF i = log_id
        THEN [logs[i] EXCEPT !.status = status, !.error_message = error_message]
        ELSE logs[i]]

(***************************************************************************)
(* Temporary directories and the files in them.                            *)
(***************************************************************************)
Users == 1..NumUsers

\* A path: directory, file name without extension, extension.  NoPath is None.
Path(dir, base, ext) == [dir |-> dir, base |-> base, ext |-> ext]
NoPath == Path(0, "", "")
FileName(path) == [base |-> path.base, ext |-> path.ext]

\* A name generator that hands out the same name every time.
mkdtemp_name_fixed(disk) == 1

\* The name tempfile.mkdtemp() picks: one that does not exist on disk.  The
\* name of a removed directory may come back, so the least free name is taken.
mkdtemp_name(disk) ==
    CHOOSE d \in 1..(Cardinality(DOMAIN disk) + 1) :
        /\ d \notin DOMAIN disk
        /\ \A e \in 1..(d - 1) : e \in DOMAIN disk

\* tempfile.mkdtemp(): the directory `dir` is made, empty
mkdtemp(disk, dir) == disk @@ (dir :> {})

\* shutil.rmtree(dir)
rmtree(disk, dir) == [d \in DOMAIN disk \ {dir} |-> disk[d]]

\* a file written into its directory (stream.download, ffmpeg, export)
write_file(disk, path) ==
    [disk EXCEPT ![path.dir] = @ \cup {FileName(path)}]

\* os.remove(path)
os_remove(disk, path) ==
    [disk EXCEPT ![path.dir] = @ \ {FileName(path)}]

path_exists(disk, path) ==
    path.dir \in DOMAIN disk /\ FileName(path) \in disk[path.dir]

\* a call that raised part-way may or may not have left its output file
write_if(disk, path, present) == IF present THEN write_file(disk, path) ELSE disk

(***************************************************************************)
(* convert_to_mp3                                                          *)
(***************************************************************************)
TranscodeOutcomes == {"ok", "from_file_raises", "export_raises", "remove_raises"}
TranscodeThrows == TranscodeOutcomes \ {"ok"}

\* A conversion that deletes the source before the export has succeeded.
convert_to_mp3_remove_first(disk, file_path, transcode, partial) ==
    LET mp3_path == Path(file_path.dir, file_path.base, ".mp3")
    IN  IF file_path.ext # ".mp3"
        THEN IF transcode = "from_file_raises"
             THEN [path |-> file_path, fs |-> disk]
             ELSE IF transcode = "export_raises"
             THEN [path |-> file_path,
                   fs |-> write_if(os_remove(disk, file_path), mp3_path, partial)]
             ELSE [path |-> mp3_path,
                   fs |-> write_file(os_remove(disk, file_path), mp3_path)]
        ELSE [path |-> file_path, fs |-> disk]

\* lines 159-171.  transcode: what AudioSegment.from_file / export / os.remove do
convert_to_mp3(disk, file_path, transcode, partial) ==
    LET mp3_path == Path(file_path.dir, file_path.base, ".mp3")
    IN  IF file_path.ext # ".mp3"
        THEN IF transcode = "from_file_raises"
             THEN [path |-> file_path, fs |-> disk]
             ELSE IF transcode = "export_raises"
             THEN [path |-> file_path, fs |-> write_if(disk, mp3_path, partial)]
             ELSE IF transcode = "remove_raises"
             THEN [path |-> file_path, fs |-> write_file(disk, mp3_path)]
             ELSE [path |-> mp3_path,
                   fs |-> os_remove(write_file(disk, mp3_path), file_path)]
        ELSE [path |-> file_path, fs |-> disk]

(***************************************************************************)
(* download_youtube                                                        *)
(***************************************************************************)
\* What the provider, the disk and ffmpeg do during one run:
\*   none                 nothing fails
\*   yt_init              YouTube(url, ...) raises (line 255)
\*   streams_unavailable  yt.streams raises VideoUnavailable (line 259 / 282)
\*   stream_missing       get_by_itag returns None
\*   download             stream.download raises (line 266 / 289)
\*   audio_missing        no audio-only stream (line 267)
\*   audio_download       audio_stream.download raises (line 274)
\*   merge                ffmpeg exits non-zero (line 276)
SingleFaults == {"none", "yt_init", "streams_unavailable", "stream_missing", "download"}
AdaptiveFaults == SingleFaults \cup {"audio_missing", "audio_download", "merge"}

\* an audio-only stream's file: mime audio/mp4 gives ".mp4"; ".mp3" would need no conversion
AudioExtensions == {".mp4", ".mp3"}

DlResult(file_path, temp_dir, disk, logs) ==
    [file_path |-> file_path, temp_dir |-> temp_dir, fs |-> disk, usage_logs |-> logs]

\* lines 260-265 / 268-273 / 283-288: the stream is not there
stream_not_available(disk, logs, log_id, temp_dir, error_msg) ==
    DlResult(NoPath, 0, rmtree(disk, temp_dir),
             update_log_status(logs, log_id, "failed", error_msg))

\* An except clause that returns the failure without writing the log row.
except_clause_no_log(disk, logs, log_id, error_msg) ==
    DlResult(NoPath, 0, disk, logs)

\* lines 294-303: the two except clauses
except_clause(disk, logs, log_id, error_msg) ==
    DlResult(NoPath, 0, disk, update_log_status(logs, log_id, "failed", error_msg))

\* A merge step that forgets to delete the audio source.
merge_and_clean_keeps_audio(disk, video_path, audio_path, output_path) ==
    os_remove(write_file(disk, output_path), video_path)

\* lines 276-278: ffmpeg writes output_path, then both sources are removed
merge_and_clean(disk, video_path, audio_path, output_path) ==
    os_remove(os_remove(write_file(disk, output_path), video_path), audio_path)

\* lines 258-280
download_adaptive(disk, logs, log_id, temp_dir, env) ==
    LET video_path == Path(temp_dir, "video_title", ".mp4")
        audio_path == Path(temp_dir, "audio_title", ".webm")
        output_path == Path(temp_dir, "title_id", ".mp4")
        fs_video == write_file(disk, video_path)
        fs_both == write_file(fs_video, audio_path)
    IN  CASE env.fault = "streams_unavailable" ->
                except_clause(disk, logs, log_id, "Video tidak tersedia")
          [] env.fault = "stream_missing" ->
                stream_not_available(disk, logs, log_id, temp_dir,
                                     "Stream dengan itag tidak tersedia")
          [] env.fault = "download" ->
                except_clause(write_if(disk, video_path, env.partial), logs, log_id,
                              "Error mengunduh video")
          [] env.fault = "audio_missing" ->
                stream_not_available(fs_video, logs, log_id, temp_dir,
                                     "Audio stream tidak tersedia")
          [] env.fault = "audio_download" ->
                except_clause(write_if(fs_video, audio_path, env.partial), logs, log_id,
                              "Error mengunduh video")
          [] env.fault = "merge" ->
                except_clause(write_if(fs_both, output_path, env.partial), logs, log_id,
                              "Error mengunduh video")
          [] OTHER ->
                DlResult(output_path, temp_dir,
                         merge_and_clean(fs_both, video_path, audio_path, output_path),
                         update_log_status(logs, log_id, "completed", ""))

\* line 289: where stream.download puts the file (title + the stream's subtype)
fetched_path(format_type, temp_dir, env) ==
    Path(temp_dir, "title", IF format_type = "audio" THEN env.audio_ext ELSE ".mp4")

\* lines 281-293
download_single(disk, logs, log_id, format_type, temp_dir, env) ==
    LET file_path == fetched_path(format_type, temp_dir, env)
        fs_file == write_file(disk, file_path)
        conv == IF format_type = "audio"
                THEN convert_to_mp3(fs_file, file_path, env.transcode, env.partial)
                ELSE [path |-> file_path, fs |-> fs_file]
    IN  CASE env.fault = "streams_unavailable" ->
                except_clause(disk, logs, log_id, "Video tidak tersedia")
          [] env.fault = "stream_missing" ->
                stream_not_available(disk, logs, log_id, temp_dir,
                                     "Stream dengan itag tidak tersedia")
          [] env.fault = "download" ->
                except_clause(write_if(disk, file_path, env.partial), logs, log_id,
                              "Error mengunduh video")
          [] OTHER ->
                DlResult(conv.path, temp_dir, conv.fs,
                         update_log_status(logs, log_id, "completed", ""))

\* lines 251-303.  temp_dir is the directory mkdtemp makes on this run.
download_youtube(disk, logs, log_id, format_type, ptype, temp_dir, env) ==
    IF env.fault = "yt_init"
    THEN except_clause(disk, logs, log_id, "Error mengunduh video")
    ELSE IF format_type = "video" /\ ptype = "adapt"
    THEN download_adaptive(mkdtemp(disk, temp_dir), logs, log_id, temp_dir, env)
    ELSE download_single(mkdtemp(disk, temp_dir), logs, log_id, format_type, temp_dir, env)

(***************************************************************************)
(* Values of the variables a specification does not use.                   *)
(***************************************************************************)
NoLocals == [format_type |-> "", ptype |-> "", log_id |-> 0,
             file_path |-> NoPath, temp_dir |-> 0]
NoHistory == [fault |-> "", created |-> 0, orig_path |-> NoPath,
              transcode |-> "", delivery |-> ""]

HandlerIdle ==
    /\ usage_logs = <<>>
    /\ fs = <<>>
    /\ mkdtemp_count = 0
    /\ pc = [u \in Users |-> "idle"]
    /\ loc = [u \in Users |-> NoLocals]
    /\ hist = [u \in Users |-> NoHistory]

CatalogIdle ==
    /\ provider = Response("none", <<>>)
    /\ video_info = Pending

NoRun == [kind |-> "", pc |-> "idle", log_id |-> 0, rendered |-> Pending,
          failure_shown |-> FALSE]

MoreIdle ==
    /\ uh = NoRun
    /\ users = <<>>
    /\ first_seen = <<>>
    /\ now = 0
    /\ stats = Pending

(***************************************************************************)
(* SpecCatalog: get_video_info applied to one provider response.           *)
(***************************************************************************)
CatalogInputs ==
    {Response(e, <<>>) : e \in ProviderErrors}
    \cup {Response("none", WithItags(Repeat(base, n))) :
            base \in SeqsUpTo(RawStreams, MaxStreams), n \in 1..MaxRepeat}

RetryIdle ==
    /\ retries = 0 /\ attempt = 0 /\ info = NotBound /\ calls = <<>>
    /\ sleeps = 0 /\ rpc = "idle" /\ retry_result = Pending

InitCatalog ==
    /\ provider \in CatalogInputs
    /\ video_info = Pending
    /\ RetryIdle
    /\ HandlerIdle
    /\ MoreIdle

BuildCatalog ==
    /\ video_info = Pending
    /\ video_info' = get_video_info(provider)
    /\ UNCHANGED <<provider, retryVars, handlerVars, moreVars>>

NextCatalog == BuildCatalog

SpecCatalog == InitCatalog /\ [][NextCatalog]_vars

(***************************************************************************)
(* get_video_info_with_retry                                               *)
(***************************************************************************)
\* line 177: `info and "error" not in info` (None is falsy, a dict with keys truthy)
IsUsable_inverted(i) == i.tag # "None" /\ i.tag = "error"

IsUsable(i) == i.tag # "None" /\ i.tag # "error"

\* What the provider may answer on one attempt.
RetryResponses ==
    {Response(e, <<>>) : e \in ProviderErrors}
    \cup {Response("none", <<>>), Response("none", ScenarioStreams)}

InitRetry ==
    /\ retries \in 0..MaxRetries
    /\ attempt = 0
    /\ info = NotBound
    /\ calls = <<>>
    /\ sleeps = 0
    /\ rpc = "loop"
    /\ retry_result = Pending
    /\ CatalogIdle
    /\ HandlerIdle
    /\ MoreIdle

\* A wrapper that gives up on an Unexpected failure instead of retrying.
RetryIteration_stop_on_unexpected(resp) ==
    /\ rpc = "loop"
    /\ attempt < retries
    /\ LET got == get_video_info(resp)
       IN  /\ info' = got
           /\ calls' = Append(calls, got)
           /\ IF IsUsable(got) \/ got = ErrorValue("unexpected")
              THEN /\ rpc' = "returned"
                   /\ retry_result' = got
                   /\ UNCHANGED <<attempt, sleeps>>
              ELSE /\ sleeps' = sleeps + 1
                   /\ attempt' = attempt + 1
                   /\ UNCHANGED <<rpc, retry_result>>
    /\ UNCHANGED <<retries, catalogVars, handlerVars, moreVars>>

\* A loop that sleeps only between attempts, not after the last one.
RetryIteration_no_final_sleep(resp) ==
    /\ rpc = "loop"
    /\ attempt < retries
    /\ LET got == get_video_info(resp)
       IN  /\ info' = got
           /\ calls' = Append(calls, got)
           /\ IF IsUsable(got)
              THEN /\ rpc' = "returned"
                   /\ retry_result' = got
                   /\ UNCHANGED <<attempt, sleeps>>
              ELSE /\ sleeps' = IF attempt + 1 < retries THEN sleeps + 1 ELSE sleeps
                   /\ attempt' = attempt + 1
                   /\ UNCHANGED <<rpc, retry_result>>
    /\ UNCHANGED <<retries, catalogVars, handlerVars, moreVars>>

\* lines 175-180: one iteration of the loop
RetryIteration(resp) ==
    /\ rpc = "loop"
    /\ attempt < retries
    /\ LET got == get_video_info(resp)
       IN  /\ info' = got
           /\ calls' = Append(calls, got)
           /\ IF IsUsable(got)
              THEN /\ rpc' = "returned"
                   /\ retry_result' = got
                   /\ UNCHANGED <<attempt, sleeps>>
              ELSE /\ sleeps' = sleeps + 1
                   /\ attempt' = attempt + 1
                   /\ UNCHANGED <<rpc, retry_result>>
    /\ UNCHANGED <<retries, catalogVars, handlerVars, moreVars>>

\* A wrapper that reports a synthesized error once the attempts are used up.
RetryExhausted_synthesized ==
    /\ rpc = "loop"
    /\ attempt >= retries
    /\ rpc' = "returned"
    /\ retry_result' = ErrorValue("exhausted")
    /\ UNCHANGED <<retries, attempt, info, calls, sleeps, catalogVars, handlerVars, moreVars>>

\* line 181: `return info` after the loop; reading a local that was never
\* assigned raises UnboundLocalError
RetryExhausted ==
    /\ rpc = "loop"
    /\ attempt >= retries
    /\ IF info = NotBound
       THEN rpc' = "raised" /\ UNCHANGED retry_result
       ELSE rpc' = "returned" /\ retry_result' = info
    /\ UNCHANGED <<retries, attempt, info, calls, sleeps, catalogVars, handlerVars, moreVars>>

NextRetry ==
    \/ \E resp \in RetryResponses : RetryIteration(resp)
    \/ RetryExhausted

SpecRetry == InitRetry /\ [][NextRetry]_vars

(***************************************************************************)
(* Spec: button_handler, the branch data[0] == "download" (lines 456-509), *)
(* one run per user.  A coroutine runs until its next await, so each       *)
(* action is the code between two awaits; download_youtube holds no await  *)
(* and runs whole inside one action.  `ok` says whether the awaited chat   *)
(* transport call returned or raised.                                      *)
(***************************************************************************)
Selections == {<<"audio", "prog">>, <<"video", "prog">>, <<"video", "adapt">>}

\* The environments download_youtube can meet for one selection.
Environments(format_type, ptype) ==
    LET adaptive == format_type = "video" /\ ptype = "adapt"
    IN  {e \in [fault : AdaptiveFaults, partial : BOOLEAN,
                audio_ext : AudioExtensions, transcode : TranscodeOutcomes] :
            /\ adaptive \/ e.fault \in SingleFaults
            /\ format_type = "audio" \/ e.audio_ext = ".mp4"
            /\ (format_type = "audio" /\ e.fault = "none" /\ e.audio_ext # ".mp3")
                  \/ e.transcode = "ok"
            /\ e.fault \in {"download", "audio_download", "merge"}
                  \/ e.transcode = "export_raises" \/ ~e.partial}

Init ==
    /\ HandlerIdle
    /\ CatalogIdle
    /\ RetryIdle
    /\ MoreIdle

\* lines 417-420: up to `await query.answer()`
BH_Start(u, format_type, ptype) ==
    /\ pc[u] = "idle"
    /\ pc' = [pc EXCEPT ![u] = "answer"]
    /\ loc' = [loc EXCEPT ![u] = [NoLocals EXCEPT !.format_type = format_type,
                                                  !.ptype = ptype]]
    /\ UNCHANGED <<usage_logs, fs, mkdtemp_count, hist, catalogVars, retryVars, moreVars>>

\* lines 421-466: log_usage, up to `await query.edit_message_text("Mengunduh ...")`
BH_Answer(u, ok) ==
    /\ pc[u] = "answer"
    /\ IF ok
       THEN /\ usage_logs' = log_usage(usage_logs, u, "download")
            /\ loc' = [loc EXCEPT ![u].log_id = Len(usage_logs) + 1]
            /\ pc' = [pc EXCEPT ![u] = "edit_start"]
       ELSE /\ pc' = [pc EXCEPT ![u] = "closing"]
            /\ UNCHANGED <<usage_logs, loc>>
    /\ UNCHANGED <<fs, mkdtemp_count, hist, catalogVars, retryVars, moreVars>>

\* lines 467-469 / 501-502: download_youtube, up to the next edit_message_text
BH_Download(u, ok, env) ==
    /\ pc[u] = "edit_start"
    /\ IF ok
       THEN LET temp_dir == mkdtemp_name(fs)
                r == download_youtube(fs, usage_logs, loc[u].log_id, loc[u].format_type,
                                      loc[u].ptype, temp_dir, env)
                single == ~(loc[u].format_type = "video" /\ loc[u].ptype = "adapt")
                fetched == single /\ env.fault = "none"
            IN  /\ fs' = r.fs
                /\ usage_logs' = r.usage_logs
                /\ mkdtemp_count' = IF env.fault = "yt_init" THEN mkdtemp_count
                                    ELSE mkdtemp_count + 1
                /\ loc' = [loc EXCEPT ![u].file_path = r.file_path,
                                      ![u].temp_dir = r.temp_dir]
                /\ hist' = [hist EXCEPT ![u] =
                              [fault |-> env.fault,
                               created |-> IF env.fault = "yt_init" THEN 0 ELSE temp_dir,
                               orig_path |-> IF fetched
                                             THEN fetched_path(loc[u].format_type, temp_dir, env)
                                             ELSE NoPath,
                               transcode |-> IF fetched /\ loc[u].format_type = "audio"
                                                /\ env.audio_ext # ".mp3"
                                             THEN env.transcode ELSE "",
                               delivery |-> ""]]
                /\ pc' = [pc EXCEPT ![u] = IF r.file_path # NoPath THEN "edit_done"
                                           ELSE "closing"]
       ELSE /\ pc' = [pc EXCEPT ![u] = "closing"]
            /\ UNCHANGED <<usage_logs, fs, mkdtemp_count, loc, hist>>
    /\ UNCHANGED <<catalogVars, retryVars, moreVars>>

\* line 469: `await query.edit_message_text("Pengunduhan selesai ...")` returns or raises
BH_EditDone(u, ok) ==
    /\ pc[u] = "edit_done"
    /\ pc' = [pc EXCEPT ![u] = IF ok THEN "send" ELSE "closing"]
    /\ UNCHANGED <<usage_logs, fs, mkdtemp_count, loc, hist, catalogVars, retryVars, moreVars>>

DeliveryOutcomes == {"ok", "raises", "timeout"}

\* lines 493-496: the except clause around the delivery
delivery_failed(logs, log_id) ==
    update_log_status(logs, log_id, "failed_to_send", "Error mengirim file")

\* A cleanup that deletes the file and leaves its directory.
remove_delivered_file_only(disk, file_path, temp_dir) ==
    os_remove(disk, file_path)

\* lines 489-491: after a delivery that returned
remove_delivered(disk, file_path, temp_dir) ==
    LET removed == os_remove(disk, file_path)
    IN  IF temp_dir # 0 /\ temp_dir \in DOMAIN removed
        THEN rmtree(removed, temp_dir)
        ELSE removed

\* lines 470-500: send_audio / send_video under wait_for(timeout=3600)
BH_Send(u, outcome) ==
    /\ pc[u] = "send"
    /\ hist' = [hist EXCEPT ![u].delivery = outcome]
    /\ IF outcome = "ok" /\ path_exists(fs, loc[u].file_path)
       THEN /\ fs' = remove_delivered(fs, loc[u].file_path, loc[u].temp_dir)
            /\ pc' = [pc EXCEPT ![u] = "edit_sent"]
            /\ UNCHANGED usage_logs
       ELSE /\ usage_logs' = delivery_failed(usage_logs, loc[u].log_id)
            /\ pc' = [pc EXCEPT ![u] = "closing"]
            /\ UNCHANGED fs
    /\ UNCHANGED <<mkdtemp_count, loc, catalogVars, retryVars, moreVars>>

\* line 492: the last edit is still inside the try of the delivery
BH_EditSent(u, ok) ==
    /\ pc[u] = "edit_sent"
    /\ IF ok
       THEN /\ pc' = [pc EXCEPT ![u] = "finished"]
            /\ UNCHANGED usage_logs
       ELSE /\ usage_logs' = delivery_failed(usage_logs, loc[u].log_id)
            /\ pc' = [pc EXCEPT ![u] = "closing"]
    /\ UNCHANGED <<fs, mkdtemp_count, loc, hist, catalogVars, retryVars, moreVars>>

\* lines 497-509: the edit_message_text that reports a failure; whether it
\* returns or raises (the outer except, then `pass`), the handler ends
BH_Close(u) ==
    /\ pc[u] = "closing"
    /\ pc' = [pc EXCEPT ![u] = "finished"]
    /\ UNCHANGED <<usage_logs, fs, mkdtemp_count, loc, hist, catalogVars, retryVars, moreVars>>

Next ==
    \E u \in Users :
        \/ \E sel \in Selections : BH_Start(u, sel[1], sel[2])
        \/ \E ok \in BOOLEAN : BH_Answer(u, ok)
        \/ \E ok \in BOOLEAN :
              \E env \in Environments(loc[u].format_type, loc[u].ptype) :
                  BH_Download(u, ok, env)
        \/ \E ok \in BOOLEAN : BH_EditDone(u, ok)
        \/ \E outcome \in DeliveryOutcomes : BH_Send(u, outcome)
        \/ \E ok \in BOOLEAN : BH_EditSent(u, ok)
        \/ BH_Close(u)

Spec == Init /\ [][Next]_vars

(***************************************************************************)
(* SpecUrl: one run of url_handler (lines 370-414) or of button_handler's  *)
(* "option" branch (lines 417-454), with the retry loop it awaits.  Each   *)
(* action is the code between two awaits; `ok` says whether the awaited    *)
(* chat transport call returned or raised.                                 *)
(***************************************************************************)
DEFAULT_RETRIES == 3
URL_RETRIES == 3

\* Provider answers of one attempt: the errors, no streams, streams none of
\* which is usable, audio only, video only, and the spec's scenario.
UrlResponses ==
    RetryResponses
    \cup {Response("none", WithItags(<< [kind |-> "audio", q |-> 0, subtype |-> "m4a"],
                                        [kind |-> "prog", q |-> 1440, subtype |-> "mp4"],
                                        [kind |-> "adapt", q |-> 720, subtype |-> "webm"] >>)),
          Response("none", WithItags(<< [kind |-> "audio", q |-> 128, subtype |-> "m4a"] >>)),
          Response("none", WithItags(<< [kind |-> "adapt", q |-> 1080, subtype |-> "mp4"] >>))}

InitUrl ==
    /\ uh \in {[NoRun EXCEPT !.kind = k, !.pc = "start"] : k \in {"url", "option"}}
    /\ users = <<>> /\ first_seen = <<>> /\ now = 0 /\ stats = Pending
    /\ CatalogIdle
    /\ RetryIdle
    /\ HandlerIdle

\* the call get_video_info_with_retry(url, retries) begins
StartRetry(n) ==
    /\ retries' = n
    /\ attempt' = 0
    /\ info' = NotBound
    /\ calls' = <<>>
    /\ sleeps' = 0
    /\ rpc' = "loop"
    /\ retry_result' = Pending

urlFrame == <<catalogVars, fs, mkdtemp_count, pc, loc, hist, users, first_seen, now, stats>>

\* lines 371-381: log_usage, the URL check, up to the first reply_text
UH_Begin(valid) ==
    /\ uh.kind = "url" /\ uh.pc = "start"
    /\ LET logs == log_usage(usage_logs, 1, "url_check")
           log_id == Len(logs)
       IN  IF valid
           THEN /\ usage_logs' = logs
                /\ uh' = [uh EXCEPT !.log_id = log_id, !.pc = "reply_wait"]
           ELSE /\ usage_logs' = update_log_status(logs, log_id, "invalid_url",
                                                   "URL tidak valid")
                /\ uh' = [uh EXCEPT !.log_id = log_id, !.pc = "reply",
                                    !.failure_shown = TRUE]
    /\ UNCHANGED <<retryVars, urlFrame>>

\* lines 408-411: the except clause of url_handler, up to its reply_text
url_except(logs, log_id) ==
    update_log_status(logs, log_id, "unexpected_error", "Error tidak terduga")

\* lines 381-382: "Mengambil informasi video..." returned or raised
UH_StartFetch(ok) ==
    /\ uh.kind = "url" /\ uh.pc = "reply_wait"
    /\ IF ok
       THEN /\ StartRetry(URL_RETRIES)
            /\ uh' = [uh EXCEPT !.pc = "fetching"]
            /\ UNCHANGED usage_logs
       ELSE /\ usage_logs' = url_except(usage_logs, uh.log_id)
            /\ uh' = [uh EXCEPT !.pc = "except_reply", !.failure_shown = TRUE]
            /\ UNCHANGED retryVars
    /\ UNCHANGED urlFrame

\* A handler that records a failed fetch without its error text.
url_outcome_no_message(result) ==
    IF result.tag = "None"
    THEN [status |-> "failed_to_get_info", error_message |-> ""]
    ELSE IF result.tag = "error"
    THEN [status |-> "error_getting_info", error_message |-> ""]
    ELSE [status |-> "info_retrieved", error_message |-> ""]

\* lines 383-391: the status url_handler writes for the value it got
url_outcome(result) ==
    IF result.tag = "None"
    THEN [status |-> "failed_to_get_info",
          error_message |-> "Tidak dapat mengambil informasi video"]
    ELSE IF result.tag = "error"
    THEN [status |-> "error_getting_info", error_message |-> result.error]
    ELSE [status |-> "info_retrieved", error_message |-> ""]

\* lines 383-407: after the retry wrapper returned, up to the next reply_text
UH_Fetched ==
    /\ uh.kind = "url" /\ uh.pc = "fetching" /\ rpc = "returned"
    /\ LET o == url_outcome(retry_result)
       IN  /\ usage_logs' = update_log_status(usage_logs, uh.log_id, o.status,
                                              o.error_message)
           /\ uh' = IF o.status = "info_retrieved"
                    THEN [uh EXCEPT !.pc = "reply", !.rendered = retry_result]
                    ELSE [uh EXCEPT !.pc = "reply", !.failure_shown = TRUE]
    /\ UNCHANGED <<retryVars, urlFrame>>

\* lines 377 / 385 / 389 / 400: a reply_text inside the try returned or raised
UH_Reply(ok) ==
    /\ uh.kind = "url" /\ uh.pc = "reply"
    /\ IF ok
       THEN /\ uh' = [uh EXCEPT !.pc = "finished"]
            /\ UNCHANGED usage_logs
       ELSE /\ usage_logs' = url_except(usage_logs, uh.log_id)
            /\ uh' = [uh EXCEPT !.pc = "except_reply", !.failure_shown = TRUE]
    /\ UNCHANGED <<retryVars, urlFrame>>

\* lines 412-414: the reply_text of the except clause; when it raises the
\* exception leaves url_handler
UH_ExceptReply(ok) ==
    /\ uh.kind = "url" /\ uh.pc = "except_reply"
    /\ uh' = [uh EXCEPT !.pc = IF ok THEN "finished" ELSE "raised"]
    /\ UNCHANGED <<usage_logs, retryVars, urlFrame>>

\* lines 417-429: query.answer() returned or raised; the outer except
\* (lines 503-509) shows a failure and swallows what its edit raises
OH_Begin(ok) ==
    /\ uh.kind = "option" /\ uh.pc = "start"
    /\ IF ok
       THEN /\ StartRetry(DEFAULT_RETRIES)
            /\ uh' = [uh EXCEPT !.pc = "fetching"]
       ELSE /\ uh' = [uh EXCEPT !.pc = "finished", !.failure_shown = TRUE]
            /\ UNCHANGED retryVars
    /\ UNCHANGED <<usage_logs, urlFrame>>

\* lines 430-453: after get_video_info_by_id returned, up to edit_message_text
OH_Fetched ==
    /\ uh.kind = "option" /\ uh.pc = "fetching" /\ rpc = "returned"
    /\ uh' = IF retry_result.tag = "None" \/ retry_result.tag = "error"
             THEN [uh EXCEPT !.pc = "edit", !.failure_shown = TRUE]
             ELSE [uh EXCEPT !.pc = "edit", !.rendered = retry_result]
    /\ UNCHANGED <<usage_logs, retryVars, urlFrame>>

\* lines 431 / 453, 503-509: the edit returned, or raised into the outer except
OH_Edit(ok) ==
    /\ uh.kind = "option" /\ uh.pc = "edit"
    /\ uh' = IF ok THEN [uh EXCEPT !.pc = "finished"]
             ELSE [uh EXCEPT !.pc = "finished", !.failure_shown = TRUE]
    /\ UNCHANGED <<usage_logs, retryVars, urlFrame>>

NextUrl ==
    \/ \E valid \in BOOLEAN : UH_Begin(valid)
    \/ \E ok \in BOOLEAN : UH_StartFetch(ok)
    \/ \E resp \in UrlResponses : RetryIteration(resp)
    \/ RetryExhausted
    \/ UH_Fetched
    \/ \E ok \in BOOLEAN : UH_Reply(ok)
    \/ \E ok \in BOOLEAN : UH_ExceptReply(ok)
    \/ \E ok \in BOOLEAN : OH_Begin(ok)
    \/ OH_Fetched
    \/ \E ok \in BOOLEAN : OH_Edit(ok)

SpecUrl == InitUrl /\ [][NextUrl]_vars

(***************************************************************************)
(* SpecJobs: the download branch of button_handler run by several users    *)
(* at once.  Each job meets one of a few environments, so that the         *)
(* interleavings stay few.                                                 *)
(***************************************************************************)
Jobs == 1..NumJobs

JobSelections == {<<"video", "prog">>, <<"video", "adapt">>}

JobEnvironments(format_type, ptype) ==
    {e \in Environments(format_type, ptype) :
        /\ e.fault \in {"none", "stream_missing"}
        /\ ~e.partial}

JobDeliveryOutcomes == {"ok", "raises"}

InitJobs ==
    /\ usage_logs = <<>>
    /\ fs = <<>>
    /\ mkdtemp_count = 0
    /\ pc = [u \in Jobs |-> "idle"]
    /\ loc = [u \in Jobs |-> NoLocals]
    /\ hist = [u \in Jobs |-> NoHistory]
    /\ CatalogIdle
    /\ RetryIdle
    /\ MoreIdle

NextJobs ==
    \E u \in Jobs :
        \/ \E sel \in JobSelections : BH_Start(u, sel[1], sel[2])
        \/ BH_Answer(u, TRUE)
        \/ \E env \in JobEnvironments(loc[u].format_type, loc[u].ptype) :
              BH_Download(u, TRUE, env)
        \/ BH_EditDone(u, TRUE)
        \/ \E outcome \in JobDeliveryOutcomes : BH_Send(u, outcome)
        \/ BH_EditSent(u, TRUE)
        \/ BH_Close(u)

SpecJobs == InitJobs /\ [][NextJobs]_vars

(***************************************************************************)
(* SpecBoundary: what get_video_info and download_youtube hand back to     *)
(* their callers, for every outcome of the provider and of ffmpeg.         *)
(***************************************************************************)
InitBoundary ==
    /\ provider \in UrlResponses
    /\ video_info = Pending
    /\ RetryIdle
    /\ HandlerIdle
    /\ MoreIdle

NextBoundary ==
    \/ BuildCatalog
    \/ \E u \in Users :
          \/ \E sel \in Selections : BH_Start(u, sel[1], sel[2])
          \/ BH_Answer(u, TRUE)
          \/ \E env \in Environments(loc[u].format_type, loc[u].ptype) :
                BH_Download(u, TRUE, env)

SpecBoundary == InitBoundary /\ [][NextBoundary]_vars

(***************************************************************************)
(* The users table and the statistics query.                              *)
(***************************************************************************)
UserIds == {1, 2}

DisplayNames ==
    {[username |-> "budi", first_name |-> "Budi", last_name |-> ""],
     [username |-> "budi99", first_name |-> "Budi", last_name |-> "S"],
     [username |-> "", first_name |-> "Sari", last_name |-> ""]}

UserRow(n, join_date) ==
    [username |-> n.username, first_name |-> n.first_name,
     last_name |-> n.last_name, join_date |-> join_date]

\* A save_user that writes the row whether or not the id is known.
save_user_overwrite(table, user_id, n, join_date) ==
    (user_id :> UserRow(n, join_date)) @@ table

\* lines 68-79: INSERT only when no row has this user_id (the primary key)
save_user(table, user_id, n, join_date) ==
    IF user_id \in DOMAIN table
    THEN table
    ELSE table @@ (user_id :> UserRow(n, join_date))

\* line 107: SELECT COUNT(DISTINCT user_id) FROM users
total_users(table) == Cardinality(DOMAIN table)

\* line 109: SELECT COUNT(*) FROM usage_logs WHERE action = 'download'
total_downloads(logs) ==
    Cardinality({i \in DOMAIN logs : logs[i].action = "download"})

\* lines 110-119: completed downloads per user of the join with users.  The
\* groups are kept as a set: ORDER BY leaves ties open and LIMIT 5 is above
\* the number of user ids.
top_users(table, logs) ==
    LET count(id) == Cardinality({i \in DOMAIN logs :
                                     /\ logs[i].user_id = id
                                     /\ logs[i].action = "download"
                                     /\ logs[i].status = "completed"})
    IN  {[username |-> table[id].username, download_count |-> count(id)] :
            id \in {x \in DOMAIN table : count(x) > 0}}

\* lines 120-127: the 5 newest rows with a message; rows are inserted in
\* timestamp order
recent_errors(logs) ==
    LET IsError(row) == row.error_message # ""
        errors == SelectSeq(logs, IsError)
    IN  Take(Reverse([i \in DOMAIN errors |->
                         [action |-> errors[i].action,
                          error_message |-> errors[i].error_message]]), 5)

\* lines 104-135
get_user_stats(table, logs) ==
    [total_users |-> total_users(table),
     total_downloads |-> total_downloads(logs),
     top_users |-> top_users(table, logs),
     recent_errors |-> recent_errors(logs)]

(***************************************************************************)
(* SpecStats: log_usage, update_log_status and get_user_stats in any       *)
(* order, over a users table drawn at the start.                           *)
(***************************************************************************)
UsersTables ==
    {<<>>,
     save_user(<<>>, 1, CHOOSE n \in DisplayNames : n.username = "budi", 0),
     save_user(save_user(<<>>, 1, CHOOSE n \in DisplayNames : n.username = "budi", 0),
               2, CHOOSE n \in DisplayNames : n.username = "", 0)}

LogActions == {"download", "url_check"}

LogOutcomes == {<<"completed", "">>, <<"failed", "Error mengunduh video">>}

storeFrame == <<catalogVars, retryVars, fs, mkdtemp_count, pc, loc, hist, uh>>

InitStats ==
    /\ HandlerIdle
    /\ CatalogIdle
    /\ RetryIdle
    /\ uh = NoRun
    /\ users \in UsersTables
    /\ first_seen = <<>>
    /\ now = 0
    /\ stats = Pending

\* lines 81-92
LogUsage(user_id, action) ==
    /\ Len(usage_logs) < MaxLogs
    /\ usage_logs' = log_usage(usage_logs, user_id, action)
    /\ UNCHANGED <<storeFrame, users, first_seen, now, stats>>

\* lines 94-102
UpdateLogStatus(log_id, status, error_message) ==
    /\ usage_logs' = update_log_status(usage_logs, log_id, status, error_message)
    /\ UNCHANGED <<storeFrame, users, first_seen, now, stats>>

\* lines 104-135, called at line 352
GetUserStats ==
    /\ stats' = get_user_stats(users, usage_logs)
    /\ UNCHANGED <<storeFrame, usage_logs, users, first_seen, now>>

NextStats ==
    \/ \E user_id \in UserIds, action \in LogActions : LogUsage(user_id, action)
    \/ \E log_id \in DOMAIN usage_logs, o \in LogOutcomes :
          UpdateLogStatus(log_id, o[1], o[2])
    \/ GetUserStats

SpecStats == InitStats /\ [][NextStats]_vars

(***************************************************************************)
(* SpecUsers: save_user called any number of times.  `now` is the clock    *)
(* read at line 73; first_seen remembers each id's first call.             *)
(***************************************************************************)
InitUsers ==
    /\ HandlerIdle
    /\ CatalogIdle
    /\ RetryIdle
    /\ MoreIdle

\* lines 68-79, called at line 308.  The clock may or may not have moved
\* since the previous call.
SaveUser(user_id, n, t) ==
    /\ t <= MaxTime
    /\ now' = t
    /\ users' = save_user(users, user_id, n, t)
    /\ first_seen' =
          IF user_id \in DOMAIN first_seen
          THEN [first_seen EXCEPT ![user_id].again =
                   @ \/ (UserRow(n, t) # first_seen[user_id].row)]
          ELSE first_seen @@ (user_id :> [row |-> UserRow(n, t), again |-> FALSE])
    /\ UNCHANGED <<storeFrame, usage_logs, stats>>

NextUsers ==
    \E user_id \in UserIds, n \in DisplayNames, t \in {now, now + 1} :
        SaveUser(user_id, n, t)

SpecUsers == InitUsers /\ [][NextUsers]_vars

(***************************************************************************)
(* Properties of get_video_info (SpecCatalog).                             *)
(***************************************************************************)
IsCatalog(i) == i.tag = "catalog"

\* C4: the video list of a built catalog holds no two options with the same
\* quality label.
C4_NoDuplicateQualityLabel ==
    IsCatalog(video_info) =>
        \A i, j \in DOMAIN video_info.video_options :
            i # j => video_info.video_options[i].quality # video_info.video_options[j].quality

\* C5: a built catalog has at most 3 audio options and at most 10 video
\* options, and every video option's quality is in the allow-list.
C5_CatalogBounded ==
    IsCatalog(video_info) =>
        /\ Len(video_info.audio_options) <= 3
        /\ Len(video_info.video_options) <= 10
        /\ \A i \in DOMAIN video_info.video_options :
              video_info.video_options[i].quality \in ALLOWED_VIDEO_RESOLUTIONS

\* C5 witness: a catalog built from more than 10 eligible video streams, its
\* video list cut to 10.
C5_Witness ==
    /\ IsCatalog(video_info)
    /\ Len(video_options_of(provider.streams)) > 10
    /\ Len(video_info.video_options) = 10

NonIncreasing(opts) ==
    \A i, j \in DOMAIN opts : i < j => opts[i].quality >= opts[j].quality

\* C6 as stated: the audio list is non-increasing by bitrate and the whole
\* video list, in list order, is non-increasing by resolution.
C6_WholeListsNonIncreasing ==
    IsCatalog(video_info) =>
        /\ NonIncreasing(video_info.audio_options)
        /\ NonIncreasing(video_info.video_options)

\* C6 amended: the audio list is non-increasing by bitrate; in the video
\* list the progressive options come before the adaptive ones, and each of
\* the two groups is non-increasing by resolution.
C6_SortedWithinGroups ==
    IsCatalog(video_info) =>
        /\ NonIncreasing(video_info.audio_options)
        /\ \A i, j \in DOMAIN video_info.video_options :
              i < j =>
                LET a == video_info.video_options[i]
                    b == video_info.video_options[j]
                IN  /\ a.ptype = "adapt" => b.ptype = "adapt"
                    /\ a.ptype = b.ptype => a.quality >= b.quality

\* C6 witness: a catalog with two audio options whose video list has a
\* progressive option followed by an adaptive option of higher resolution.
C6_Witness ==
    /\ IsCatalog(video_info)
    /\ Len(video_info.audio_options) >= 2
    /\ \E i, j \in DOMAIN video_info.video_options :
          /\ i < j
          /\ video_info.video_options[i].ptype = "prog"
          /\ video_info.video_options[j].ptype = "adapt"
          /\ video_info.video_options[i].quality < video_info.video_options[j].quality

(***************************************************************************)
(* Properties of get_video_info_with_retry (SpecRetry).                    *)
(***************************************************************************)
AllFailed == \A i \in DOMAIN calls : ~IsCatalog(calls[i])

\* C2: the wrapper stops at the first usable catalog: a usable catalog is
\* only ever the last call made, k failures before it make k+1 calls, and
\* it is the value returned.
C2_StopsAtFirstSuccess ==
    \A i \in DOMAIN calls :
        IsCatalog(calls[i]) =>
            /\ i = Len(calls)
            /\ \A k \in 1..(i - 1) : ~IsCatalog(calls[k])
            /\ rpc = "returned"
            /\ retry_result = calls[i]

\* C2 witness: fail, fail, succeed with retries = 3: three calls, the
\* success returned.
C2_Witness ==
    /\ retries = 3
    /\ rpc = "returned"
    /\ Len(calls) = 3
    /\ ~IsCatalog(calls[1]) /\ ~IsCatalog(calls[2])
    /\ IsCatalog(calls[3])
    /\ retry_result = calls[3]

\* C3: when every attempt fails (retries >= 1), the wrapper makes exactly
\* `retries` calls and returns the value of the last one: a failure, not a
\* synthesized error and not a catalog.
C3_ReturnsLastFailure ==
    (rpc # "loop" /\ retries >= 1 /\ AllFailed) =>
        /\ rpc = "returned"
        /\ Len(calls) = retries
        /\ retry_result = calls[Len(calls)]
        /\ retry_result.tag \in {"None", "error"}
        /\ retry_result.tag = "error" => retry_result.error \in {"unavailable", "http", "unexpected"}

\* C3 witness: three failing attempts whose first and last failures differ.
C3_Witness ==
    /\ retries = 3
    /\ rpc = "returned"
    /\ AllFailed
    /\ Len(calls) = 3
    /\ calls[1] # calls[3]
    /\ retry_result = calls[3]

\* C10 as stated: after an Unexpected failure no further call is made and
\* that failure is what the wrapper returns.
C10_NoCallAfterUnexpected ==
    \A i \in DOMAIN calls :
        calls[i] = ErrorValue("unexpected") =>
            /\ i = Len(calls)
            /\ rpc # "loop" => retry_result = calls[i]

\* C10 amended: the wrapper retries after a failure of any kind: once it has
\* ended, an Unexpected failure on an attempt before the last allowed one
\* was followed by a further call, and an Unexpected failure is returned
\* only from the final attempt.
C10_RetriesAfterAnyFailure ==
    rpc # "loop" =>
        \A i \in DOMAIN calls :
            calls[i] = ErrorValue("unexpected") =>
                /\ i < retries => Len(calls) > i
                /\ i = Len(calls) => (i = retries /\ retry_result = calls[i])

\* C10 witness: an Unexpected failure on the first attempt, then another call.
C10_Witness ==
    /\ rpc = "returned"
    /\ Len(calls) >= 2
    /\ calls[1] = ErrorValue("unexpected")

\* C17: with retries = 0 the wrapper makes no call and returns a defined
\* failure value.
C17_ZeroAttemptsDefined ==
    (retries = 0 /\ rpc # "loop") =>
        /\ rpc = "returned"
        /\ calls = <<>>
        /\ retry_result.tag \in {"None", "error"}

FailedCalls == {i \in DOMAIN calls : ~IsCatalog(calls[i])}

\* C22: every failed attempt is followed by one delay, the last attempt
\* included: a run whose n attempts all fail has slept n times when it
\* returns, and a run that succeeds on attempt k has slept k - 1 times.
C22_OneDelayPerFailedAttempt ==
    /\ sleeps = Cardinality(FailedCalls)
    /\ (rpc = "returned" /\ AllFailed) => sleeps = retries
    /\ (rpc = "returned" /\ ~AllFailed) => sleeps = Len(calls) - 1

\* C22 witness: three failed attempts, three delays, then the return.
C22_Witness ==
    /\ retries = 3
    /\ rpc = "returned"
    /\ AllFailed
    /\ Len(calls) = 3
    /\ sleeps = 3

(***************************************************************************)
(* Properties of url_handler and the "option" branch (SpecUrl).            *)
(***************************************************************************)
BothEmpty(i) == i.audio_options = <<>> /\ i.video_options = <<>>

RunEnded == uh.pc \in {"finished", "raised"}

\* C11: get_video_info never returns a catalog whose two lists are both
\* empty, so the retry wrapper never returns one and no handler renders one.
C11_NoEmptyCatalog ==
    /\ \A i \in DOMAIN calls : IsCatalog(calls[i]) => ~BothEmpty(calls[i])
    /\ IsCatalog(retry_result) => ~BothEmpty(retry_result)
    /\ uh.rendered # Pending =>
          /\ IsCatalog(uh.rendered)
          /\ ~BothEmpty(uh.rendered)
          /\ uh.rendered = retry_result

\* C11 witness: every attempt of a URL request found no usable stream; the
\* run ended with a failure shown and nothing rendered.
C11_Witness ==
    /\ uh.kind = "url" /\ uh.pc = "finished"
    /\ Len(calls) = URL_RETRIES
    /\ \A i \in DOMAIN calls : calls[i] = NoneValue
    /\ retry_result = NoneValue
    /\ uh.rendered = Pending
    /\ uh.failure_shown

AllUnavailable ==
    /\ uh.kind = "url" /\ RunEnded /\ rpc = "returned"
    /\ \A i \in DOMAIN calls : calls[i] = ErrorValue("unavailable")

\* C12 as stated: when every attempt of a URL request is "video unavailable"
\* the wrapper returns that failure after 3 attempts and the request's log
\* row ends with status failed and a non-empty error message.
C12_UnavailableEndsFailed ==
    AllUnavailable =>
        /\ Len(calls) = 3
        /\ retry_result = ErrorValue("unavailable")
        /\ usage_logs[uh.log_id].status = "failed"
        /\ usage_logs[uh.log_id].error_message # ""

\* C12 amended: ... the request's log row ends with status
\* error_getting_info, or unexpected_error when the reply that reports the
\* failure raised, and a non-empty error message.
C12_UnavailableEndsErrorStatus ==
    AllUnavailable =>
        /\ Len(calls) = 3
        /\ retry_result = ErrorValue("unavailable")
        /\ usage_logs[uh.log_id].status \in {"error_getting_info", "unexpected_error"}
        /\ usage_logs[uh.log_id].error_message # ""

\* C12 witness: three unavailable attempts, the failure reported, the row
\* set to error_getting_info.
C12_Witness ==
    /\ AllUnavailable
    /\ uh.pc = "finished"
    /\ Len(calls) = 3
    /\ usage_logs[uh.log_id].status = "error_getting_info"

\* C20: every handler run that ended by showing a failure has a log row of
\* its request with a status other than started and completed and a
\* non-empty error message.
C20_EveryFailureLogged ==
    (RunEnded /\ uh.failure_shown) =>
        /\ uh.log_id \in DOMAIN usage_logs
        /\ usage_logs[uh.log_id].status \notin {"started", "completed"}
        /\ usage_logs[uh.log_id].error_message # ""

(***************************************************************************)
(* Properties of download_youtube and button_handler (Spec).               *)
(***************************************************************************)
Returned(u) == pc[u] \in {"edit_done", "send"}

\* C1: when download_youtube fails after mkdtemp made the workspace, the
\* workspace is gone from the disk.
C1_FailureRemovesWorkspace ==
    \A u \in Users :
        (hist[u].fault \notin {"", "none"} /\ hist[u].created # 0) =>
            hist[u].created \notin DOMAIN fs

\* C7: after a successful adaptive download the returned workspace holds
\* exactly one file, the merged output, which is the returned path.
C7_AdaptiveLeavesOnlyMerged ==
    \A u \in Users :
        (Returned(u) /\ loc[u].format_type = "video" /\ loc[u].ptype = "adapt") =>
            /\ loc[u].temp_dir \in DOMAIN fs
            /\ loc[u].file_path = Path(loc[u].temp_dir, "title_id", ".mp4")
            /\ fs[loc[u].temp_dir] = {FileName(loc[u].file_path)}

\* C7 witness: an adaptive download has just returned its file.
C7_Witness ==
    \E u \in Users :
        /\ pc[u] = "edit_done"
        /\ loc[u].format_type = "video" /\ loc[u].ptype = "adapt"
        /\ hist[u].fault = "none"
        /\ loc[u].file_path # NoPath

\* C8: in audio mode, when the fetched file is not an mp3 and the conversion
\* throws, download_youtube returns the fetched file's path, the file is in
\* the workspace, and the job's log row says completed with no error.
C8_TranscodeFailureFallsBack ==
    \A u \in Users :
        (Returned(u) /\ loc[u].format_type = "audio"
                     /\ hist[u].transcode \in TranscodeThrows) =>
            /\ loc[u].file_path = hist[u].orig_path
            /\ loc[u].file_path.ext # ".mp3"
            /\ path_exists(fs, loc[u].file_path)
            /\ usage_logs[loc[u].log_id].status = "completed"
            /\ usage_logs[loc[u].log_id].error_message = ""

\* C8 witness: an audio download whose export threw has just returned.
C8_Witness ==
    \E u \in Users :
        /\ pc[u] = "edit_done"
        /\ loc[u].format_type = "audio"
        /\ hist[u].transcode = "export_raises"

\* C9: when the download succeeded and the delivery raised or timed out,
\* then at the end of button_handler the job's row records a failure and
\* the workspace is gone from the disk.
C9_DeliveryFailureCleansUp ==
    \A u \in Users :
        (pc[u] = "finished" /\ hist[u].delivery \in {"raises", "timeout"}) =>
            /\ usage_logs[loc[u].log_id].status \in {"failed", "failed_to_send"}
            /\ hist[u].created \notin DOMAIN fs

\* The step of user u in which download_youtube ran.
PipelineStep(u) == pc[u] = "edit_start" /\ hist[u].fault = "" /\ hist'[u].fault # ""

\* C13 as stated: download_youtube leaves the usage log unchanged on every
\* path; only its caller writes the status of the job's row.
C13_PipelineLeavesLogUnchanged ==
    [][\A u \in Users : PipelineStep(u) => usage_logs' = usage_logs]_vars

\* C13 amended: download_youtube itself writes the status of the job's row,
\* completed on success and failed with a non-empty message on every failure;
\* it adds no row, deletes none and changes no other row.
C13_PipelineWritesOwnRow ==
    [][\A u \in Users : PipelineStep(u) =>
          /\ Len(usage_logs') = Len(usage_logs)
          /\ \A i \in DOMAIN usage_logs :
                IF i = loc[u].log_id
                THEN /\ usage_logs'[i].user_id = usage_logs[i].user_id
                     /\ usage_logs'[i].action = usage_logs[i].action
                     /\ IF loc'[u].file_path # NoPath
                        THEN /\ usage_logs'[i].status = "completed"
                             /\ usage_logs'[i].error_message = ""
                        ELSE /\ usage_logs'[i].status = "failed"
                             /\ usage_logs'[i].error_message # ""
                ELSE usage_logs'[i] = usage_logs[i]]_vars

\* C13 witness: download_youtube has failed in a stream download and the
\* job's row already reads failed before the caller did anything further.
C13_Witness ==
    \E u \in Users :
        /\ pc[u] = "closing"
        /\ hist[u].fault = "download"
        /\ loc[u].file_path = NoPath
        /\ usage_logs[loc[u].log_id].status = "failed"

\* C14: rows are created with status started, a row whose status has left
\* started is never written again, and no row is deleted.
C14_StatusChangedAtMostOnce ==
    [][/\ Len(usage_logs') >= Len(usage_logs)
       /\ \A i \in DOMAIN usage_logs' :
             IF i \in DOMAIN usage_logs
             THEN usage_logs[i].status # "started" => usage_logs'[i] = usage_logs[i]
             ELSE usage_logs'[i].status = "started"]_vars

(***************************************************************************)
(* Properties of the usage store (SpecStats, SpecUsers).                   *)
(***************************************************************************)
CompletedDownloads ==
    {i \in DOMAIN usage_logs : /\ usage_logs[i].action = "download"
                               /\ usage_logs[i].status = "completed"}

\* C15: whenever get_user_stats produces a result, its total_downloads is the
\* number of rows with action download and status completed; started and
\* failed downloads are not counted.
C15_TotalCountsCompleted ==
    [][stats' # stats => stats'.total_downloads = Cardinality(CompletedDownloads)]_vars

\* C16: the users table holds exactly one row for each id save_user was
\* called with, and that row carries the names and join date of the id's
\* first call.
C16_FirstCallWins ==
    /\ DOMAIN users = DOMAIN first_seen
    /\ \A id \in DOMAIN users : users[id] = first_seen[id].row

\* C16 witness: some id was saved again with other names or at a later time
\* and its row is still that of the first call.
C16_Witness ==
    \E id \in DOMAIN first_seen :
        /\ first_seen[id].again
        /\ id \in DOMAIN users
        /\ users[id] = first_seen[id].row
        /\ users[id].join_date < now

(***************************************************************************)
(* Properties of interleaved downloads (SpecJobs).                         *)
(***************************************************************************)
\* A job holds a workspace from the return of download_youtube with a file
\* until its delivery step.
Live(u) == pc[u] \in {"edit_done", "send"}

\* C18: live jobs hold workspaces that exist and differ from one another,
\* and a step of another job (its download, its cleanup on failure or after
\* delivery) leaves a live job's workspace and the files in it as they were.
C18_WorkspaceOwnedByOneJob ==
    [][\A u \in DOMAIN pc :
          Live(u) =>
             /\ path_exists(fs, loc[u].file_path)
             /\ loc[u].file_path.dir = loc[u].temp_dir
             /\ \A v \in DOMAIN pc \ {u} :
                   Live(v) => loc[v].temp_dir # loc[u].temp_dir
             /\ pc'[u] = pc[u] =>
                   /\ loc[u].temp_dir \in DOMAIN fs'
                   /\ fs'[loc[u].temp_dir] = fs[loc[u].temp_dir]]_vars

\* C18 witness: job v was delivered and its workspace removed, while job u,
\* whose workspace was made when v's still existed, waits for its delivery
\* with its file in place.
C18_Witness ==
    \E u \in DOMAIN pc : \E v \in DOMAIN pc \ {u} :
        /\ pc[u] = "send"
        /\ path_exists(fs, loc[u].file_path)
        /\ hist[v].delivery = "ok"
        /\ hist[v].created # 0
        /\ hist[v].created # loc[u].temp_dir
        /\ hist[v].created \notin DOMAIN fs

(***************************************************************************)
(* Properties of the two boundaries (SpecBoundary).                        *)
(***************************************************************************)
FailureKinds ==
    {NoneValue, ErrorValue("unavailable"), ErrorValue("http"), ErrorValue("unexpected")}

\* C19: get_video_info always returns a value: a catalog, or one of four
\* failure values that differ from one another, one for each of unavailable,
\* http, any other exception and no usable stream.  download_youtube returns
\* (None, None), with the job's row set to failed, for every fault it meets,
\* the failure of the merge included.
C19_FailuresAreReturned ==
    /\ Cardinality(FailureKinds) = 4
    /\ video_info # Pending =>
          /\ video_info.tag \in {"catalog", "None", "error"}
          /\ provider.raises = "VideoUnavailable" => video_info = ErrorValue("unavailable")
          /\ provider.raises = "HTTPError" => video_info = ErrorValue("http")
          /\ provider.raises = "Exception" => video_info = ErrorValue("unexpected")
          /\ provider.raises = "none" =>
                IF /\ audio_options_of(provider.streams) = <<>>
                   /\ video_options_of(provider.streams) = <<>>
                THEN video_info = NoneValue
                ELSE IsCatalog(video_info)
    /\ \A u \in Users :
          hist[u].fault \notin {"", "none"} =>
             /\ loc[u].file_path = NoPath
             /\ loc[u].temp_dir = 0
             /\ usage_logs[loc[u].log_id].status = "failed"

\* C19 witness: the provider raised an exception of no special kind and
\* get_video_info returned the unexpected failure; ffmpeg failed in an
\* adaptive download and download_youtube returned (None, None).
C19_Witness ==
    /\ provider.raises = "Exception"
    /\ video_info = ErrorValue("unexpected")
    /\ \E u \in Users :
          /\ hist[u].fault = "merge"
          /\ loc[u].file_path = NoPath
          /\ pc[u] = "closing"

(***************************************************************************)
(* Hand-over of the workspace and the end of a download run (Spec).        *)
(***************************************************************************)
\* The step of user u in which the delivery returned and the cleanup ran.
DeliveredStep(u) == pc[u] = "send" /\ pc'[u] = "edit_sent"

\* C21: when download_youtube returns a file, the file exists inside the
\* returned workspace, which is still on disk; when the delivery has returned,
\* button_handler has removed the file and the workspace.
C21_WorkspaceHandedOverThenRemoved ==
    [][\A u \in Users :
          /\ (PipelineStep(u) /\ loc'[u].file_path # NoPath) =>
                /\ loc'[u].temp_dir \in DOMAIN fs'
                /\ loc'[u].file_path.dir = loc'[u].temp_dir
                /\ path_exists(fs', loc'[u].file_path)
          /\ DeliveredStep(u) =>
                /\ ~path_exists(fs', loc[u].file_path)
                /\ loc[u].temp_dir \notin DOMAIN fs']_vars

\* C21 witness: a download returned its file, the delivery returned, and
\* the workspace made for it is no longer on disk.
C21_Witness ==
    \E u \in Users :
        /\ pc[u] = "edit_sent"
        /\ hist[u].fault = "none"
        /\ hist[u].delivery = "ok"
        /\ hist[u].created = loc[u].temp_dir
        /\ hist[u].created # 0
        /\ hist[u].created \notin DOMAIN fs

\* C23: when a run of the download branch has finished, the row it created
\* no longer has status started.
C23_NoRowLeftStarted ==
    \A u \in Users :
        (pc[u] = "finished" /\ loc[u].log_id # 0) =>
            usage_logs[loc[u].log_id].status # "started"
====
